---- MODULE Spec2Model ----
(***************************************************************************)
(* Model of scripts/import_ca_cities.py: the three-tier data source        *)
(* resolver (network with retries, local CSV, hardcoded list), the CITY    *)
(* column normalizer and the Firestore batch writer.                       *)
(*                                                                         *)
(* Strings the script computes on (city names, document ids) are tuples    *)
(* of one-character strings, so that lower() and replace() are computed.   *)
(* A table (DataFrame) is a function from column names to columns.         *)
(* An optional value (df = None) is a sequence of length 0 or 1.           *)
(***************************************************************************)
EXTENDS Integers, Sequences, FiniteSets, TLC

\* ------------------------------------------------------------------ bounds

\* Longest CITY column of the small tables.
MaxRows == 3
\* Number of executions of the script in one behaviour.
MaxRuns == 2

\* ------------------------------------------------------------------ strings

UpperCase ==
    <<"A", "B", "C", "D", "E", "F", "G", "H", "I", "J", "K", "L", "M",
      "N", "O", "P", "Q", "R", "S", "T", "U", "V", "W", "X", "Y", "Z">>

LowerCase ==
    <<"a", "b", "c", "d", "e", "f", "g", "h", "i", "j", "k", "l", "m",
      "n", "o", "p", "q", "r", "s", "t", "u", "v", "w", "x", "y", "z">>

\* The lower-case letter of each upper-case letter.
LowerOf ==
    [c \in {UpperCase[i] : i \in 1..Len(UpperCase)} |->
        LowerCase[CHOOSE i \in 1..Len(UpperCase) : UpperCase[i] = c]]

\* str.lower() on one character.
LowerChar(c) == IF c \in DOMAIN LowerOf THEN LowerOf[c] ELSE c

\* str.lower()
Lower(s) == [i \in 1..Len(s) |-> LowerChar(s[i])]

\* str.replace(old, new) for one-character old and new.
Replace(s, old, new) == [i \in 1..Len(s) |-> IF s[i] = old THEN new ELSE s[i]]

\* doc_id = city_name.lower().replace(" ", "_").replace("-", "_")
DocId(city_name) == Replace(Replace(Lower(city_name), " ", "_"), "-", "_")

\* Python None in a document field.
NULL == "null"

\* The document the script writes for one city.
CityRecord(city_name) ==
    [name |-> city_name \o <<",", " ", "C", "A">>,
     status |-> "pending",
     last_scanned |-> NULL]

\* ------------------------------------------------------------------ constants of the script

\* A mutated retry bound: one attempt more.
max_retries_plus_one == 3 + 1

max_retries == 3

\* "Commit every 400 to stay safely under the 500 limit"
BatchLimit == 400

fallback_cities ==
    << <<"L", "o", "s", " ", "A", "n", "g", "e", "l", "e", "s">>,
       <<"S", "a", "n", " ", "D", "i", "e", "g", "o">>,
       <<"S", "a", "n", " ", "J", "o", "s", "e">>,
       <<"S", "a", "n", " ", "F", "r", "a", "n", "c", "i", "s", "c", "o">>,
       <<"F", "r", "e", "s", "n", "o">>,
       <<"S", "a", "c", "r", "a", "m", "e", "n", "t", "o">>,
       <<"L", "o", "n", "g", " ", "B", "e", "a", "c", "h">>,
       <<"O", "a", "k", "l", "a", "n", "d">>,
       <<"B", "a", "k", "e", "r", "s", "f", "i", "e", "l", "d">>,
       <<"A", "n", "a", "h", "e", "i", "m">>,
       <<"R", "i", "v", "e", "r", "s", "i", "d", "e">>,
       <<"S", "t", "o", "c", "k", "t", "o", "n">>,
       <<"I", "r", "v", "i", "n", "e">>,
       <<"C", "h", "u", "l", "a", " ", "V", "i", "s", "t", "a">>,
       <<"F", "r", "e", "m", "o", "n", "t">>,
       <<"S", "a", "n", " ", "B", "e", "r", "n", "a", "r", "d", "i", "n", "o">>,
       <<"M", "o", "d", "e", "s", "t", "o">>,
       <<"O", "x", "n", "a", "r", "d">>,
       <<"F", "o", "n", "t", "a", "n", "a">>,
       <<"M", "o", "r", "e", "n", "o", " ", "V", "a", "l", "l", "e", "y">>,
       <<"G", "l", "e", "n", "d", "a", "l", "e">>,
       <<"H", "u", "n", "t", "i", "n", "g", "t", "o", "n", " ", "B", "e", "a", "c", "h">>,
       <<"S", "a", "n", "t", "a", " ", "C", "l", "a", "r", "i", "t", "a">>,
       <<"G", "a", "r", "d", "e", "n", " ", "G", "r", "o", "v", "e">>,
       <<"S", "a", "n", "t", "a", " ", "R", "o", "s", "a">>,
       <<"O", "c", "e", "a", "n", "s", "i", "d", "e">>,
       <<"R", "a", "n", "c", "h", "o", " ", "C", "u", "c", "a", "m", "o", "n", "g", "a">>,
       <<"O", "n", "t", "a", "r", "i", "o">>,
       <<"E", "l", "k", " ", "G", "r", "o", "v", "e">>,
       <<"C", "o", "r", "o", "n", "a">>,
       <<"L", "a", "n", "c", "a", "s", "t", "e", "r">>,
       <<"P", "a", "l", "m", "d", "a", "l", "e">>,
       <<"H", "a", "y", "w", "a", "r", "d">>,
       <<"S", "a", "l", "i", "n", "a", "s">>,
       <<"P", "o", "m", "o", "n", "a">>,
       <<"S", "u", "n", "n", "y", "v", "a", "l", "e">>,
       <<"E", "s", "c", "o", "n", "d", "i", "d", "o">>,
       <<"T", "o", "r", "r", "a", "n", "c", "e">>,
       <<"P", "a", "s", "a", "d", "e", "n", "a">>,
       <<"O", "r", "a", "n", "g", "e">>,
       <<"F", "u", "l", "l", "e", "r", "t", "o", "n">> >>


\* ------------------------------------------------------------------ tables

Str_LosAngeles == <<"L", "o", "s", " ", "A", "n", "g", "e", "l", "e", "s">>
Str_Irvine == <<"I", "r", "v", "i", "n", "e">>
Str_IRVINE == <<"I", "R", "V", "I", "N", "E">>
Str_IrvineSp == <<"I", "r", "v", "i", "n", "e", " ">>
Str_ElkGrove == <<"E", "l", "k", " ", "G", "r", "o", "v", "e">>
Str_ElkHyphen == <<"E", "l", "k", "-", "G", "r", "o", "v", "e">>

\* City names of the small tables: two pairs that differ only in case or in
\* space against hyphen, and one that differs only in trailing whitespace.
Names ==
    {Str_LosAngeles, Str_Irvine, Str_IRVINE, Str_IrvineSp, Str_ElkGrove, Str_ElkHyphen}

\* Sequences over S of length at most n.
SeqUpTo(S, n) == UNION {[1..k -> S] : k \in 0..n}

\* A table with the CITY column and one more column.
WithCity(col) ==
    [c \in {"CITY", "COUNTY"} |->
        IF c = "CITY" THEN col ELSE [i \in 1..Len(col) |-> <<"L", "A">>]]

\* A table of the same shape whose city column has another name.
WithoutCity(col) ==
    [c \in {"City", "COUNTY"} |->
        IF c = "City" THEN col ELSE [i \in 1..Len(col) |-> <<"L", "A">>]]

SmallTables ==
    {WithCity(col) : col \in SeqUpTo(Names, MaxRows)}
        \cup {WithoutCity(col) : col \in SeqUpTo({Str_Irvine}, 1)}

\* Decimal digits of a natural number, as a string.
RECURSIVE Dec(_)
Dec(n) ==
    LET d == <<"0", "1", "2", "3", "4", "5", "6", "7", "8", "9">>[(n % 10) + 1]
    IN  IF n < 10 THEN <<d>> ELSE Append(Dec(n \div 10), d)

\* The i-th generated city name: "C-1", "C-2", ...
NameOf(i) == <<"C", "-">> \o Dec(i)

\* Numbers of distinct cities of the large tables, around the multiples of
\* the batch threshold.
SampleSizes ==
    {0, 1, BatchLimit - 1, BatchLimit, BatchLimit + 1,
     2 * BatchLimit, 2 * BatchLimit + 1}

\* n distinct generated names; the first name is repeated at the end when
\* dup holds.
BigColumn(n, dup) ==
    [i \in 1..(IF dup /\ n > 0 THEN n + 1 ELSE n) |->
        IF i > n THEN NameOf(1) ELSE NameOf(i)]

BigTables ==
    {WithCity(BigColumn(n, FALSE)) : n \in SampleSizes}
        \cup {WithCity(BigColumn(2 * BatchLimit + 1, TRUE)),
              WithoutCity(BigColumn(1, FALSE))}

\* ------------------------------------------------------------------ normalizer

\* DataFrame.columns
Columns(table) == DOMAIN table

\* A mutated unique(): the distinct values in order of last appearance.
UniqueKeepLast(col) ==
    LET IsLast(i) == \A j \in (i + 1)..Len(col) : col[j] # col[i]
        kept == SelectSeq([i \in 1..Len(col) |-> i], IsLast)
    IN  [k \in 1..Len(kept) |-> col[kept[k]]]

\* pandas Series.unique(): the distinct values in order of appearance (one
\* pass that keeps a value when it has not been seen before).
Unique(col) ==
    LET IsFirst(i) == \A j \in 1..(i - 1) : col[j] # col[i]
        kept == SelectSeq([i \in 1..Len(col) |-> i], IsFirst)
    IN  [k \in 1..Len(kept) |-> col[kept[k]]]

\* ------------------------------------------------------------------ document store

\* The collection config_cities: a function from document ids to documents.
EmptyStore == <<>>

\* A mutated reference: an auto-generated id, as document() without argument.
DocumentAuto(store, doc_id) == [i \in 1..(Cardinality(DOMAIN store) + 1) |-> "#"]

\* db.collection("config_cities").document(doc_id)
Document(store, doc_id) == doc_id

\* A mutated write: set(..., merge=True) keeps the fields the data lacks.
\* old is the optional document under the reference.
SetMerge(old, data) ==
    IF old = <<>> THEN data
    ELSE [f \in DOMAIN old[1] \cup DOMAIN data |->
             IF f \in DOMAIN data THEN data[f] ELSE old[1][f]]

\* The document a set() leaves under its reference: the data, whatever was
\* there before.
Set(old, data) == data

\* The document that the writes ws, all to one reference, leave there.
RECURSIVE SetAll(_, _)
SetAll(old, ws) ==
    IF ws = <<>> THEN old
    ELSE SetAll(<<Set(old, Head(ws).data)>>, Tail(ws))

\* batch.commit(): every write of the batch is applied, in the order
\* enqueued for the writes to one reference.
Commit(store, writes) ==
    [k \in DOMAIN store \cup {writes[i].ref : i \in 1..Len(writes)} |->
        LET ToK(w) == w.ref = k
            old == IF k \in DOMAIN store THEN <<store[k]>> ELSE <<>>
        IN  SetAll(old, SelectSeq(writes, ToK))[1]]

\* ------------------------------------------------------------------ state

VARIABLES
    csv,        \* environment: the table the URL and the local file hold
    db,         \* the collection config_cities
    pc,         \* "fetch", "fallback", "loop", "done", "exit1", "crashed"
    attempt,    \* requests.get calls made by the retry loop
    fails,      \* how many of them raised
    local,      \* "unchecked", "absent", "unreadable", "read"
    source,     \* tier that produced df: "none", "remote", "local", "hardcoded"
    df,         \* optional table
    cities,     \* the normalized sequence
    batch,      \* writes enqueued in the open batch
    count,      \* writes enqueued so far
    commits,    \* sizes of the batches committed by this run, in order
    written,    \* references of the writes committed by this run
    raised,     \* commit() calls of this run that raised
    reported,   \* optional: the columns printed when CITY is missing
    imported,   \* optional: the count of the final success message
    exitCode,   \* optional exit status of the process
    run,        \* number of the current execution
    startDb,    \* the collection when the current execution started
    prev        \* optional: outcome, table and start of the previous execution,
                \* and whether the consumer changed a document after it

vars ==
    <<csv, db, pc, attempt, fails, local, source, df, cities, batch, count,
      commits, written, raised, reported, imported, exitCode, run, startDb, prev>>

progVars ==
    <<pc, attempt, fails, local, source, df, cities, batch, count,
      commits, written, raised, reported, imported, exitCode>>

Terminal == {"done", "exit1", "crashed"}

\* The state of a process that has just started (lines 24-38, 118-119).
Started ==
    /\ pc = "fetch"
    /\ attempt = 0
    /\ fails = 0
    /\ local = "unchecked"
    /\ source = "none"
    /\ df = <<>>
    /\ cities = <<>>
    /\ batch = <<>>
    /\ count = 0
    /\ commits = <<>>
    /\ written = {}
    /\ raised = 0
    /\ reported = <<>>
    /\ imported = <<>>
    /\ exitCode = <<>>

InitWith(tables) ==
    /\ csv \in tables
    /\ db = EmptyStore
    /\ Started
    /\ run = 1
    /\ startDb = EmptyStore
    /\ prev = <<>>

Init == InitWith(SmallTables)

InitBatch == InitWith(BigTables)

\* ------------------------------------------------------------------ resolver

\* A mutated exit: sys.exit() without a status.
MissingCityExitZero == <<0>>

\* sys.exit(1) of line 111.
MissingCityExit == <<1>>

\* Lines 108-119 for the table t that tier src produced: the CITY check,
\* the normalizer and the opening of the first batch.
Resolved(t, src) ==
    /\ df' = <<t>>
    /\ source' = src
    /\ IF "CITY" \notin Columns(t)
       THEN /\ reported' = <<Columns(t)>>
            /\ exitCode' = MissingCityExit
            /\ pc' = "exit1"
            /\ cities' = cities
       ELSE /\ cities' = Unique(t["CITY"])
            /\ pc' = "loop"
            /\ UNCHANGED <<reported, exitCode>>
    /\ UNCHANGED <<batch, count, commits, written, raised, imported, db>>

\* One iteration of the retry loop whose request and parse succeed: break,
\* skip the fallback (df is not None), resolve.
FetchOk ==
    /\ pc = "fetch"
    /\ attempt < max_retries
    /\ attempt' = attempt + 1
    /\ Resolved(csv, "remote")
    /\ UNCHANGED <<fails, local, csv, run, startDb, prev>>

\* One iteration whose request or parse raises: print, sleep, next attempt;
\* the loop ends after max_retries iterations with df still None.
FetchFail ==
    /\ pc = "fetch"
    /\ attempt < max_retries
    /\ attempt' = attempt + 1
    /\ fails' = fails + 1
    /\ pc' = IF attempt + 1 = max_retries THEN "fallback" ELSE "fetch"
    /\ UNCHANGED <<local, source, df, cities, batch, count, commits, written, raised,
                   reported, imported, exitCode, db, csv, run, startDb, prev>>

\* Lines 50-55: the local file exists and is read.
LocalRead ==
    /\ pc = "fallback"
    /\ df = <<>>
    /\ local' = "read"
    /\ Resolved(csv, "local")
    /\ UNCHANGED <<attempt, fails, csv, run, startDb, prev>>

\* A mutated handler: the read error is swallowed and the hardcoded list used.
LocalReadErrorFallsThrough ==
    /\ pc = "fallback"
    /\ df = <<>>
    /\ local' = "unreadable"
    /\ Resolved(WithCity(fallback_cities), "hardcoded")
    /\ UNCHANGED <<attempt, fails, csv, run, startDb, prev>>

\* Lines 52-58: the local file exists and read_csv raises: sys.exit(1).
LocalReadError ==
    /\ pc = "fallback"
    /\ df = <<>>
    /\ local' = "unreadable"
    /\ exitCode' = <<1>>
    /\ pc' = "exit1"
    /\ UNCHANGED <<attempt, fails, source, df, cities, batch, count, commits, written,
                   raised, reported, imported, db, csv, run, startDb, prev>>

\* Lines 59-106: no local file: the hardcoded list becomes the table.
Hardcoded ==
    /\ pc = "fallback"
    /\ df = <<>>
    /\ local' = "absent"
    /\ Resolved(WithCity(fallback_cities), "hardcoded")
    /\ UNCHANGED <<attempt, fails, csv, run, startDb, prev>>

\* ------------------------------------------------------------------ batch writer

Refs(writes) == {writes[i].ref : i \in 1..Len(writes)}

\* A mutated write: the record is enqueued under the raw city name.
WriteForRawName(store, city_name) ==
    [ref |-> Document(store, city_name), data |-> CityRecord(city_name)]

\* Lines 123-134: the write enqueued for one city.
WriteFor(store, city_name) ==
    [ref |-> Document(store, DocId(city_name)), data |-> CityRecord(city_name)]

\* batch.commit() returns: the writes b are applied.
CommitOk(b) ==
    /\ db' = Commit(db, b)
    /\ commits' = Append(commits, Len(b))
    /\ written' = written \cup Refs(b)
    /\ raised' = raised

\* A mutated failure path: the exception of commit() is caught and logged,
\* and the script carries on.
CommitRaisesSwallowed ==
    /\ raised' = raised + 1
    /\ UNCHANGED <<pc, exitCode, db, commits, written, imported>>

\* batch.commit() raises: nothing of the batch is applied, the exception is
\* not caught and ends the process.
CommitRaises ==
    /\ raised' = raised + 1
    /\ pc' = "crashed"
    /\ exitCode' = <<1>>
    /\ UNCHANGED <<db, commits, written, imported>>

\* "if count % 400 == 0" of line 139.
ThresholdReached(c) == c % BatchLimit = 0

\* A mutated final test: the last batch is committed even when empty.
RemainderAlways(c) == TRUE

\* A mutated final test: the trailing commit is forgotten.
RemainderNever(c) == FALSE

\* "if count % 400 != 0" of line 145.
Remainder(c) == c % BatchLimit # 0

\* Lines 121-142: one iteration of the loop over cities.
Enqueue ==
    /\ pc = "loop"
    /\ count < Len(cities)
    /\ LET b == Append(batch, WriteFor(db, cities[count + 1]))
       IN  /\ count' = count + 1
           /\ IF ThresholdReached(count + 1)
              THEN \/ /\ CommitOk(b)
                      /\ batch' = <<>>
                      /\ UNCHANGED <<pc, exitCode, imported>>
                   \/ /\ CommitRaises
                      /\ batch' = b
              ELSE /\ batch' = b
                   /\ UNCHANGED <<pc, exitCode, imported, db, commits, written, raised>>
    /\ UNCHANGED <<attempt, fails, local, source, df, cities, reported,
                   csv, run, startDb, prev>>

\* Lines 144-149: the loop is over: commit the remainder, report, return.
Finish ==
    /\ pc = "loop"
    /\ count = Len(cities)
    /\ IF Remainder(count)
       THEN \/ /\ CommitOk(batch)
               /\ pc' = "done"
               /\ imported' = <<count>>
               /\ exitCode' = <<0>>
            \/ CommitRaises
       ELSE /\ pc' = "done"
            /\ imported' = <<count>>
            /\ exitCode' = <<0>>
            /\ UNCHANGED <<db, commits, written, raised>>
    /\ UNCHANGED <<attempt, fails, local, source, df, cities, reported, batch, count,
                   csv, run, startDb, prev>>

\* ------------------------------------------------------------------ environment

\* Documents the consumer may pick in the model.
ScanTargets ==
    {DocId(n) : n \in Names}
        \cup {DocId(NameOf(1)), DocId(NameOf(BatchLimit + 1)), DocId(fallback_cities[1])}

\* The document after the discovery function has scanned its city.
Scanned(doc) ==
    [f \in DOMAIN doc \cup {"places"} |->
        IF f = "status" THEN "scanned"
        ELSE IF f = "last_scanned" THEN "t1"
        ELSE IF f = "places" THEN "p1"
        ELSE doc[f]]

\* The discovery function scans one pending city between two executions of
\* the script: after the previous process ended, before the next one acts.
Downstream ==
    /\ pc = "fetch"
    /\ attempt = 0
    /\ prev # <<>>
    /\ \E id \in DOMAIN db \cap ScanTargets :
          /\ db[id].status = "pending"
          /\ db' = [db EXCEPT ![id] = Scanned(db[id])]
    /\ startDb' = db'
    /\ prev' = <<[prev[1] EXCEPT !.touched = TRUE]>>
    /\ UNCHANGED <<progVars, csv, run>>

\* The process has ended and the script is started again.
Rerun ==
    /\ pc \in Terminal
    /\ run < MaxRuns
    /\ run' = run + 1
    /\ prev' = <<[outcome |-> pc, table |-> df, startDb |-> startDb, touched |-> FALSE]>>
    /\ startDb' = db
    /\ pc' = "fetch"
    /\ attempt' = 0
    /\ fails' = 0
    /\ local' = "unchecked"
    /\ source' = "none"
    /\ df' = <<>>
    /\ cities' = <<>>
    /\ batch' = <<>>
    /\ count' = 0
    /\ commits' = <<>>
    /\ written' = {}
    /\ raised' = 0
    /\ reported' = <<>>
    /\ imported' = <<>>
    /\ exitCode' = <<>>
    /\ UNCHANGED <<csv, db>>

Next ==
    \/ FetchOk
    \/ FetchFail
    \/ LocalRead
    \/ LocalReadError
    \/ Hardcoded
    \/ Enqueue
    \/ Finish
    \/ Downstream
    \/ Rerun

Spec == Init /\ [][Next]_vars

\* The large tables: the script is run and re-run with no consumer between.
NextBatch ==
    \/ FetchOk
    \/ FetchFail
    \/ LocalRead
    \/ LocalReadError
    \/ Hardcoded
    \/ Enqueue
    \/ Finish
    \/ Rerun

SpecBatch == InitBatch /\ [][NextBatch]_vars

\* ------------------------------------------------------------------ helpers of the properties

RECURSIVE Sum(_)
Sum(seq) == IF seq = <<>> THEN 0 ELSE Head(seq) + Sum(Tail(seq))

CeilDiv(n, d) == (n + d - 1) \div d

Suffix_CA == <<",", " ", "C", "A">>

\* The document ids of the cities cs, as a tuple.
IdSeq(cs) == [i \in 1..Len(cs) |-> DocId(cs[i])] \o <<>>

\* Index of the last occurrence of id in the tuple ids.
LastIn(ids, id) ==
    CHOOSE i \in 1..Len(ids) :
        /\ ids[i] = id
        /\ \A j \in (i + 1)..Len(ids) : ids[j] # id

\* The collection after one uninterrupted run over cs started on store: each
\* document id of cs holds the record of its last city, the rest is as before.
UninterruptedRun(store, cs) ==
    LET ids == IdSeq(cs)
        idset == {ids[i] : i \in 1..Len(ids)}
    IN  [k \in DOMAIN store \cup idset |->
            IF k \in idset
            THEN [name |-> cs[LastIn(ids, k)] \o Suffix_CA,
                  status |-> "pending",
                  last_scanned |-> "null"]
            ELSE store[k]]

HasTable == df # <<>>

MissingCity == HasTable /\ "CITY" \notin DOMAIN df[1]

\* ------------------------------------------------------------------ C1

\* C1: with no commit failure, N unique cities are written in ceil(N/400)
\* commits: every commit holds between 1 and 400 writes, every commit but
\* the last holds 400, the last holds N mod 400 when that is not zero, and
\* at the end all N writes are committed; 801 cities give 400, 400, 1.
C1_BatchSizes ==
    LET N == Len(cities)
        n == Len(commits)
    IN  /\ \A i \in 1..n : commits[i] >= 1 /\ commits[i] <= 400
        /\ \A i \in 1..(n - 1) : commits[i] = 400
        /\ (pc = "done" /\ raised = 0) =>
              /\ n = CeilDiv(N, 400)
              /\ (N % 400 # 0) => commits[n] = N % 400
              /\ (N % 400 = 0 /\ N > 0) => commits[n] = 400
              /\ Sum(commits) = N
              /\ count = N
              /\ written = {DocId(cities[i]) : i \in 1..N}
              /\ written \subseteq DOMAIN db
              /\ N = 801 => commits = <<400, 400, 1>>

C1_Witness ==
    /\ pc = "done"
    /\ Len(cities) = 801
    /\ commits = <<400, 400, 1>>

\* ------------------------------------------------------------------ C2

\* C2: the network is tried at most 3 times and not again after a success;
\* the local file is consulted only after 3 failed attempts; the hardcoded
\* list is used only after 3 failed attempts and with no local file; no tier
\* is used after an earlier one produced the table.
C2_TierOrder ==
    /\ attempt <= 3
    /\ fails <= attempt
    /\ (source = "remote") => (attempt = fails + 1 /\ fails < 3 /\ local = "unchecked")
    /\ (local # "unchecked") => (fails = 3 /\ attempt = 3)
    /\ (source = "local") <=> (local = "read")
    /\ (source = "hardcoded") => (local = "absent" /\ fails = 3)
    /\ (source = "none") => (df = <<>> /\ cities = <<>> /\ count = 0)

C2_Witness ==
    /\ source = "local"
    /\ pc = "done"
    /\ fails = 3
    /\ count > 0

\* ------------------------------------------------------------------ C3

\* C3: a table from the URL or the local file without a CITY column ends the
\* process with status 1 after the columns are reported; nothing is enqueued
\* or committed, the fetch is not retried and no later tier is used.
C3_MissingCityFatal ==
    (MissingCity /\ source \in {"remote", "local"}) =>
        /\ pc = "exit1"
        /\ exitCode # <<>>
        /\ exitCode[1] # 0
        /\ reported = <<DOMAIN df[1]>>
        /\ count = 0
        /\ batch = <<>>
        /\ commits = <<>>
        /\ written = {}
        /\ db = startDb
        /\ (source = "remote") => (attempt = fails + 1 /\ local = "unchecked")
        /\ (source = "local") => (local = "read")

C3_Witness ==
    /\ MissingCity
    /\ source = "remote"
    /\ attempt = 2
    /\ pc = "exit1"

\* ------------------------------------------------------------------ C4

\* C4: after a successful run every document the run wrote is exactly the
\* record with status "pending", last_scanned null and the name of the (last)
\* city of that document id followed by ", CA", whatever it held before.
C4_Overwrite ==
    (pc = "done") =>
        LET ids == IdSeq(cities)
        IN  /\ written # {} \/ cities = <<>>
            /\ \A id \in written :
                  /\ id \in DOMAIN db
                  /\ \E i \in 1..Len(ids) : ids[i] = id
                  /\ db[id] = [name |-> cities[LastIn(ids, id)] \o Suffix_CA,
                               status |-> "pending",
                               last_scanned |-> "null"]

C4_Witness ==
    /\ pc = "done"
    /\ \E id \in written :
          /\ id \in DOMAIN startDb
          /\ startDb[id].status = "scanned"
          /\ startDb[id].last_scanned = "t1"

\* ------------------------------------------------------------------ C5

\* C5: a second successful run on the same table, right after a successful
\* run, leaves the collection as the first run left it.
C5_Idempotent ==
    (/\ pc = "done"
     /\ prev # <<>>
     /\ prev[1].outcome = "done"
     /\ prev[1].table = df
     /\ ~prev[1].touched) => db = startDb

C5_Witness ==
    /\ pc = "done"
    /\ prev # <<>>
    /\ prev[1].outcome = "done"
    /\ prev[1].table = df
    /\ ~prev[1].touched
    /\ Len(cities) >= 2
    /\ source = "remote"

\* ------------------------------------------------------------------ C6

\* C6, as stated: after a successful run the number of documents written
\* equals the number of unique city names and the count reported.
C6_OneDocumentPerCity ==
    (pc = "done") =>
        /\ Cardinality(written) = Len(cities)
        /\ imported = <<Cardinality(written)>>

\* C6, amended: after a successful run the count reported is the number of
\* unique city names, and the number of documents written is the number of
\* distinct document ids of those names: at most the number of names, and
\* equal to it exactly when no two names share a document id.
C6_OneDocumentPerDocId ==
    (pc = "done") =>
        LET N == Len(cities)
            id == IdSeq(cities)
            ids == {id[i] : i \in 1..N}
            collide == \E i, j \in 1..N : i < j /\ id[i] = id[j]
        IN  /\ imported = <<N>>
            /\ written \subseteq DOMAIN db
            /\ Cardinality(written) = Cardinality(ids)
            /\ Cardinality(written) <= N
            /\ (Cardinality(written) = N) <=> ~collide

C6_Witness ==
    /\ pc = "done"
    /\ Len(cities) = 3
    /\ Cardinality(written) = 2

\* ------------------------------------------------------------------ C7

\* C7: after 3 failed attempts and with no local file the hardcoded list of
\* 41 names is the table; unless the commit itself fails, the run makes one
\* commit of 41 writes to 41 distinct documents and exits with status 0.
C7_HardcodedFallback ==
    (fails = 3 /\ local = "absent") =>
        /\ source = "hardcoded"
        /\ Len(cities) = 41
        /\ pc \in {"loop", "done", "crashed"}
        /\ (pc \in Terminal /\ raised = 0) =>
              /\ pc = "done"
              /\ exitCode = <<0>>
              /\ commits = <<41>>
              /\ Cardinality(written) = 41
              /\ written \subseteq DOMAIN db
              /\ imported = <<41>>

C7_Witness ==
    /\ source = "hardcoded"
    /\ pc = "done"
    /\ exitCode = <<0>>
    /\ commits = <<41>>

\* ------------------------------------------------------------------ C8

\* C8: the normalized sequence holds each value of the CITY column once, in
\* the order of first occurrence, the values unchanged; the writes are
\* enqueued in that order; <<Los Angeles, Irvine, Los Angeles>> gives
\* <<Los Angeles, Irvine>>.
C8_UniqueInOrder ==
    (HasTable /\ ~MissingCity) =>
        LET col == df[1]["CITY"]
            First(v) == CHOOSE i \in 1..Len(col) :
                            col[i] = v /\ \A j \in 1..(i - 1) : col[j] # v
        IN  /\ {cities[i] : i \in 1..Len(cities)} = {col[i] : i \in 1..Len(col)}
            /\ \A i, j \in 1..Len(cities) : i < j => cities[i] # cities[j]
            /\ \A k \in 1..(Len(cities) - 1) : First(cities[k]) < First(cities[k + 1])
            /\ (col = <<Str_LosAngeles, Str_Irvine, Str_LosAngeles>>) =>
                  cities = <<Str_LosAngeles, Str_Irvine>>
            /\ Len(batch) <= count
            /\ count <= Len(cities)
            /\ \A j \in 1..Len(batch) :
                  batch[j].data.name = cities[count - Len(batch) + j] \o Suffix_CA

C8_Witness ==
    /\ HasTable
    /\ ~MissingCity
    /\ df[1]["CITY"] = <<Str_LosAngeles, Str_Irvine, Str_LosAngeles>>
    /\ cities = <<Str_LosAngeles, Str_Irvine>>
    /\ Len(batch) = 2

\* ------------------------------------------------------------------ C9

\* C9: when the local file exists and reading it raises, the process exits
\* with status 1 with nothing enqueued or committed and no table; the
\* hardcoded list is used only when the local file does not exist.
C9_LocalReadErrorFatal ==
    /\ (local = "unreadable") =>
          /\ fails = 3
          /\ pc = "exit1"
          /\ exitCode = <<1>>
          /\ source = "none"
          /\ df = <<>>
          /\ count = 0
          /\ batch = <<>>
          /\ commits = <<>>
          /\ written = {}
          /\ db = startDb
    /\ (source = "hardcoded") => (local = "absent")

C9_Witness ==
    /\ local = "unreadable"
    /\ pc = "exit1"

\* ------------------------------------------------------------------ C10

\* The state of a run that a failed commit ended: one commit raised, the
\* writes up to the failed batch are enqueued and no more, and the collection
\* holds what the batches committed before wrote.
AbortedAtCommit ==
    /\ pc = "crashed"
    /\ raised = 1
    /\ Len(batch) >= 1
    /\ count = 400 * Len(commits) + Len(batch)
    /\ (count % 400 = 0) \/ (count = Len(cities))
    /\ \A i \in 1..Len(commits) : commits[i] = 400
    /\ db = UninterruptedRun(startDb, SubSeq(cities, 1, 400 * Len(commits)))

\* C10: a failed commit ends the run where it is: nothing more is enqueued
\* or committed, the commit is not retried, the earlier batches stay
\* written; a later run on the same table with no failure leaves the
\* collection as one uninterrupted run would have.
C10_AbortAndRerun ==
    /\ [](((raised > 0) \/ (pc = "crashed")) => AbortedAtCommit)
    /\ [][(pc = "crashed" /\ run' = run) =>
            UNCHANGED <<db, batch, count, commits, written, raised, pc>>]_vars
    /\ []((/\ pc = "done"
           /\ prev # <<>>
           /\ prev[1].outcome = "crashed"
           /\ prev[1].table = df
           /\ ~prev[1].touched) => db = UninterruptedRun(prev[1].startDb, cities))

C10_Witness ==
    /\ pc = "done"
    /\ prev # <<>>
    /\ prev[1].outcome = "crashed"
    /\ prev[1].table = df
    /\ Len(cities) = 801
    /\ Cardinality(DOMAIN startDb) = 400

====
